---- MODULE Spec2Model ----
(***************************************************************************)
(* Model of tsdevstack/nest-common: the AuthGuard request-admission        *)
(* protocol (src/src/auth/auth.guard.ts) over the SecretsService resolver. *)
(*                                                                         *)
(* Strings that the code inspects character by character (header values,   *)
(* claim names, secrets) are sequences of one-character strings.  A value  *)
(* that may be absent (JavaScript undefined) is the marker Undefined,      *)
(* which no character sequence equals.  Request paths are sequences of     *)
(* tokens: "/" and the maximal slash-free texts between slashes.           *)
(***************************************************************************)
EXTENDS Naturals, Sequences, FiniteSets, TLC

\* The guard and its resolver.
VARIABLES secretStore, request, isPublic, pc, outcome, secretsCalls

\* The header-value parsers: the string at hand and what they made of it.
VARIABLES headerValue, parsed

\* One secrets provider instance: which provider it is, the backing store it
\* talks to, its cache Map, the clock (Date.now()) and how often it advanced,
\* the calls in progress, and per key the callers use the last set (or
\* clearCache) that completed with no get of the key returned to its caller
\* since.
VARIABLES provider, store, cache, now, ticks, call, lastSet

\* Pure functions of the providers and of their factory: the secret name at
\* hand with the key list() made of it, and the environment at hand with
\* what createProvider did with it.
VARIABLES naming, creation

guardVars == <<secretStore, request, isPublic, pc, outcome, secretsCalls>>

parseVars == <<headerValue, parsed>>

providerVars == <<provider, store, cache, now, ticks, call, lastSet>>

configVars == <<naming, creation>>

vars == <<guardVars, parseVars, providerVars, configVars>>

\* ------------------------------------------------------------------------
\* JavaScript values
\* ------------------------------------------------------------------------

\* `undefined` for a string-typed slot.
Undefined == <<"undefined">>

\* Truthiness of a `string | undefined` value: undefined and '' are falsy.
Truthy(v) == v # Undefined /\ v # <<>>

\* `a || b` on string | undefined operands.
OrElse(a, b) == IF Truthy(a) THEN a ELSE b

\* Tagged values of a KongUser field.
StrV(s) == [t |-> "string", s |-> s]

NumV(n) == [t |-> "number", n |-> n]

BoolV(b) == [t |-> "boolean", b |-> b]

ArrV(a) == [t |-> "array", a |-> a]

UndefV == [t |-> "undefined"]

\* A string | undefined slot read into a KongUser field.
ValueOf(v) == IF v = Undefined THEN UndefV ELSE StrV(v)

\* An optional object slot (request.user, request.service): unset or <<x>>.
None == <<>>

Some(x) == <<x>>

\* A finite map given as a set of <<key, value>> pairs with distinct keys.
MapOf(pairs) ==
  [k \in {p[1] : p \in pairs} |-> (CHOOSE p \in pairs : p[1] = k)[2]]

\* ------------------------------------------------------------------------
\* String helpers used by the claim extractor
\* ------------------------------------------------------------------------

LowerCase == <<"a","b","c","d","e","f","g","h","i","j","k","l","m",
               "n","o","p","q","r","s","t","u","v","w","x","y","z">>

UpperCase == <<"A","B","C","D","E","F","G","H","I","J","K","L","M",
               "N","O","P","Q","R","S","T","U","V","W","X","Y","Z">>

Digits == <<"0","1","2","3","4","5","6","7","8","9">>

Whitespace == {" ", "\t"}

IsLower(c) == \E i \in DOMAIN LowerCase : LowerCase[i] = c

ToUpper(c) == UpperCase[CHOOSE i \in DOMAIN LowerCase : LowerCase[i] = c]

IsDigit(c) == \E i \in DOMAIN Digits : Digits[i] = c

DigitVal(c) == (CHOOSE i \in DOMAIN Digits : Digits[i] = c) - 1

\* str.replace(/-([a-z])/g, (_, letter) => letter.toUpperCase())
RECURSIVE toCamelCase(_)
toCamelCase(str) ==
  IF str = <<>> THEN <<>>
  ELSE IF Len(str) >= 2 /\ str[1] = "-" /\ IsLower(str[2])
       THEN <<ToUpper(str[2])>> \o toCamelCase(SubSeq(str, 3, Len(str)))
       ELSE <<str[1]>> \o toCamelCase(Tail(str))

\* value.split(',')
RECURSIVE Split(_, _)
Split(s, acc) ==
  IF s = <<>> THEN <<acc>>
  ELSE IF s[1] = "," THEN <<acc>> \o Split(Tail(s), <<>>)
       ELSE Split(Tail(s), Append(acc, s[1]))

\* v.trim()
RECURSIVE TrimLeft(_)
TrimLeft(s) ==
  IF s # <<>> /\ s[1] \in Whitespace THEN TrimLeft(Tail(s)) ELSE s

RECURSIVE TrimRight(_)
TrimRight(s) ==
  IF s # <<>> /\ s[Len(s)] \in Whitespace
  THEN TrimRight(SubSeq(s, 1, Len(s) - 1)) ELSE s

Trim(s) == TrimRight(TrimLeft(s))

\* parseInt(value, 10) on a string of decimal digits
RECURSIVE ParseInt(_, _)
ParseInt(s, acc) ==
  IF s = <<>> THEN acc ELSE ParseInt(Tail(s), acc * 10 + DigitVal(s[1]))

\* AuthGuard.parseValue
parseValue(value) ==
  IF \E i \in DOMAIN value : value[i] = ","
  THEN LET parts == Split(value, <<>>)
       IN ArrV([i \in DOMAIN parts |-> Trim(parts[i])])
  ELSE IF value # <<>> /\ \A i \in DOMAIN value : IsDigit(value[i])
  THEN NumV(ParseInt(value, 0))
  ELSE IF value = <<"t","r","u","e">> THEN BoolV(TRUE)
  ELSE IF value = <<"f","a","l","s","e">> THEN BoolV(FALSE)
  ELSE StrV(value)

parseHeaderValue_Untrimmed(value) ==
  IF \E i \in DOMAIN value : value[i] = ","
  THEN ArrV(Split(value, <<>>))
  ELSE IF value # <<>> /\ \A i \in DOMAIN value : IsDigit(value[i])
  THEN NumV(ParseInt(value, 0))
  ELSE IF value = <<"t","r","u","e">> THEN BoolV(TRUE)
  ELSE IF value = <<"f","a","l","s","e">> THEN BoolV(FALSE)
  ELSE StrV(value)

\* parseHeaderValue (auth/utils/parse-header-value.ts)
parseHeaderValue(value) ==
  IF \E i \in DOMAIN value : value[i] = ","
  THEN LET parts == Split(value, <<>>)
       IN ArrV([i \in DOMAIN parts |-> Trim(parts[i])])
  ELSE IF value # <<>> /\ \A i \in DOMAIN value : IsDigit(value[i])
  THEN NumV(ParseInt(value, 0))
  ELSE IF value = <<"t","r","u","e">> THEN BoolV(TRUE)
  ELSE IF value = <<"f","a","l","s","e">> THEN BoolV(FALSE)
  ELSE StrV(value)

\* ------------------------------------------------------------------------
\* SecretsService (the resolver the guard reads)
\* ------------------------------------------------------------------------

\* Store content for a key the provider cannot find: provider.get throws.
NotFound == <<"not-found">>

\* SecretsService.get(key): the provider's value, or the provider's error.
SecretsGet(key) ==
  IF secretStore[key] = NotFound
  THEN [threw |-> TRUE, value |-> Undefined]
  ELSE [threw |-> FALSE, value |-> secretStore[key]]

\* ------------------------------------------------------------------------
\* Decisions
\* ------------------------------------------------------------------------

Pending == [kind |-> "pending", message |-> ""]

Admit == [kind |-> "admit", message |-> ""]

UnauthorizedException(msg) == [kind |-> "UnauthorizedException", message |-> msg]

ForbiddenException(msg) == [kind |-> "ForbiddenException", message |-> msg]

\* An Error thrown by the provider and not caught by the guard.
ProviderError == [kind |-> "Error", message |-> "Secret not found"]

\* ------------------------------------------------------------------------
\* AuthGuard: pure parts
\* ------------------------------------------------------------------------

kId == <<"i","d">>

kSub == <<"s","u","b">>

\* const path = request.url || request.path
RequestPath(req) == OrElse(req.url, req.path)

\* s.includes(pat) on token sequences
Includes(s, pat) ==
  \E i \in 1..(Len(s) + 1) :
     /\ i + Len(pat) - 1 <= Len(s)
     /\ SubSeq(s, i, i + Len(pat) - 1) = pat

\* s.startsWith(pat)
StartsWith(s, pat) == Len(pat) <= Len(s) /\ SubSeq(s, 1, Len(pat)) = pat

IsInfrastructurePath_NoMetrics(path) ==
  /\ Truthy(path)
  /\ \/ Includes(path, <<"/", ".well-known", "/">>)
     \/ path = <<"/", "health">>
     \/ StartsWith(path, <<"/", "health", "/">>)

\* The path test of verifyKongTrustHeader: if (path) { if (includes || ...) }
IsInfrastructurePath(path) ==
  /\ Truthy(path)
  /\ \/ Includes(path, <<"/", ".well-known", "/">>)
     \/ path = <<"/", "health">>
     \/ StartsWith(path, <<"/", "health", "/">>)
     \/ path = <<"/", "metrics">>

\* crypto.timingSafeEqual on two buffers of equal length
timingSafeEqual(a, b) == a = b

SecretMismatch_LengthOnly(provided, expected) ==
  Len(provided) # Len(expected)

\* provided.length !== expected.length || !timingSafeEqual(provided, expected)
SecretMismatch(provided, expected) ==
  Len(provided) # Len(expected) \/ ~timingSafeEqual(provided, expected)

\* The x-userinfo header is modelled by what base64-decoding it and
\* JSON.parse yield: kind "malformed" (JSON.parse throws), "null" (parses to
\* null, so claims.sub throws a TypeError), "object" (a claims record),
\* "number" (valid JSON that is a number: claims.sub is undefined and
\* Object.keys(claims) is empty, nothing throws), and the falsy header values
\* "undefined" and "empty".
UserinfoPresent(u) == u.kind \notin {"undefined", "empty"}

UserinfoParses(u) == u.kind \in {"object", "number"}

\* Primary path: { id: claims.sub } then every other key copied over.
UserFromClaims(claims) ==
  LET others == DOMAIN claims \ {kSub}
  IN [k \in {kId} \cup others |->
        IF k \in others THEN claims[k]
        ELSE IF kSub \in DOMAIN claims THEN claims[kSub] ELSE UndefV]

\* Fallback path: id from the consumer headers, then the x-jwt-claim-*
\* headers.  jwtClaims maps the header name with the prefix removed to the
\* header value; names are lower-case (Node lower-cases header names), on
\* which toCamelCase is injective, so the iteration order is immaterial.
UserFromLegacyHeaders(headers) ==
  LET userId == OrElse(headers.consumerId, headers.credentialIdentifier)
      names == DOMAIN headers.jwtClaims
      keys == {toCamelCase(n) : n \in names}
  IN [k \in {kId} \cup keys |->
        IF k \in keys
        THEN parseValue(headers.jwtClaims[CHOOSE n \in names : toCamelCase(n) = k])
        ELSE ValueOf(userId)]

\* AuthGuard.extractUserFromHeaders
extractUserFromHeaders(headers) ==
  IF UserinfoPresent(headers.userinfo) /\ UserinfoParses(headers.userinfo)
  THEN UserFromClaims(headers.userinfo.claims)
  ELSE UserFromLegacyHeaders(headers)

\* verifyKongTrustHeader after `await this.secrets.get('KONG_TRUST_TOKEN')`;
\* Pending means the header was verified and canActivate goes on.
verifyKongTrustHeader_LengthOnly(req, got) ==
  IF got.threw THEN ProviderError
  ELSE IF ~Truthy(got.value)
  THEN UnauthorizedException("Authentication configuration error")
  ELSE IF Len(req.headers.kongTrust) # Len(got.value)
  THEN UnauthorizedException("Unauthorized request")
  ELSE Pending

verifyKongTrustHeader(req, got) ==
  IF got.threw THEN ProviderError
  ELSE IF ~Truthy(got.value)
  THEN UnauthorizedException("Authentication configuration error")
  ELSE IF SecretMismatch(req.headers.kongTrust, got.value)
  THEN UnauthorizedException("Unauthorized request")
  ELSE Pending

\* validateServiceApiKey after `await this.secrets.get('API_KEY')`: the
\* decision and the request as the method leaves it.
validateServiceApiKey_EagerService(req, got) ==
  LET marked == [req EXCEPT !.service =
                   Some(OrElse(req.headers.serviceName, <<"i","n","t","e","r","n","a","l">>))]
  IN IF got.threw THEN [outcome |-> ProviderError, request |-> req]
     ELSE IF ~Truthy(got.value)
     THEN [outcome |-> UnauthorizedException("Server API key is not configured"),
           request |-> req]
     ELSE IF SecretMismatch(req.headers.apiKey, got.value)
     THEN [outcome |-> ForbiddenException("Invalid API key"), request |-> marked]
     ELSE [outcome |-> Pending, request |-> marked]

validateServiceApiKey(req, got) ==
  IF got.threw THEN [outcome |-> ProviderError, request |-> req]
  ELSE IF ~Truthy(got.value)
  THEN [outcome |-> UnauthorizedException("Server API key is not configured"),
        request |-> req]
  ELSE IF SecretMismatch(req.headers.apiKey, got.value)
  THEN [outcome |-> ForbiddenException("Invalid API key"), request |-> req]
  ELSE [outcome |-> Pending,
        request |-> [req EXCEPT !.service =
           Some(OrElse(req.headers.serviceName, <<"i","n","t","e","r","n","a","l">>))]]

\* canActivate from the @Public() lookup to its end (lines 126-169).
AfterTrustChecks_ApiKeyUnchecked(req, pub) ==
  LET h == req.headers
      jwt == Truthy(h.consumerId) \/ Truthy(h.credentialIdentifier)
               \/ UserinfoPresent(h.userinfo)
  IN IF pub THEN [outcome |-> Admit, request |-> req]
     ELSE IF jwt
     THEN [outcome |-> Admit,
           request |-> [req EXCEPT !.user = Some(extractUserFromHeaders(h))]]
     ELSE IF Truthy(h.consumerUsername)
     THEN [outcome |-> Admit,
           request |-> [req EXCEPT !.service = Some(h.consumerUsername)]]
     ELSE IF Truthy(h.kongTrust) /\ Truthy(h.apiKey)
     THEN [outcome |-> Admit,
           request |-> [req EXCEPT !.service = Some(<<"p","a","r","t","n","e","r">>)]]
     ELSE [outcome |-> Admit, request |-> req]

AfterTrustChecks(req, pub) ==
  LET h == req.headers
      jwt == Truthy(h.consumerId) \/ Truthy(h.credentialIdentifier)
               \/ UserinfoPresent(h.userinfo)
      hasKongHeaders == jwt \/ Truthy(h.consumerUsername)
  IN IF pub THEN [outcome |-> Admit, request |-> req]
     ELSE IF hasKongHeaders
     THEN IF jwt
          THEN [outcome |-> Admit,
                request |-> [req EXCEPT !.user = Some(extractUserFromHeaders(h))]]
          ELSE [outcome |-> Admit,
                request |-> [req EXCEPT !.service = Some(h.consumerUsername)]]
     ELSE IF Truthy(h.kongTrust) /\ Truthy(h.apiKey)
     THEN [outcome |-> Admit,
           request |-> [req EXCEPT !.service = Some(<<"p","a","r","t","n","e","r">>)]]
     ELSE IF Truthy(h.apiKey)
     THEN [outcome |-> Admit, request |-> req]
     ELSE [outcome |-> UnauthorizedException("No authentication provided"),
           request |-> req]

\* ------------------------------------------------------------------------
\* Inputs
\* ------------------------------------------------------------------------

TrustToken == <<"1","2">>

ServiceApiKey == <<"k","1">>

SecretKeys == {"KONG_TRUST_TOKEN", "API_KEY"}

\* What the provider holds: the secret, an empty value, or nothing.
SecretStores ==
  {[KONG_TRUST_TOKEN |-> t, API_KEY |-> k] :
     t \in {TrustToken, <<>>, NotFound}, k \in {ServiceApiKey, <<>>, NotFound}}

\* Characters of an x-kong-trust header value and the longest value tried.
TrustChars == {"1", "2"}

MaxTrustLen == 2

\* x-kong-trust: absent, or any string over TrustChars up to MaxTrustLen.
KongTrustValues ==
  {Undefined} \cup UNION {[1..n -> TrustChars] : n \in 0..MaxTrustLen}

\* x-api-key: absent, the key, one of its length and a shorter one.
ApiKeyValues == {Undefined, ServiceApiKey, <<"k","2">>, <<"k">>}

ConsumerIdValues == {Undefined, <<"u","1">>}

ConsumerUsernameValues == {Undefined, <<"s","v","c">>}

CredentialIdentifierValues == {Undefined, <<"c","1">>}

ServiceNameValues == {Undefined, <<"b","f","f">>}

kEmail == <<"e","m","a","i","l">>

NoClaims == MapOf({})

UserinfoHeader(kind, claims) == [kind |-> kind, claims |-> claims]

UserinfoValues ==
  { UserinfoHeader("undefined", NoClaims),
    UserinfoHeader("malformed", NoClaims),
    UserinfoHeader("null", NoClaims),
    UserinfoHeader("number", NoClaims),
    UserinfoHeader("object", MapOf({<<kSub, StrV(<<"u","2">>)>>,
                                    <<kEmail, StrV(<<"a","@","b">>)>>})),
    UserinfoHeader("object", MapOf({<<kEmail, StrV(<<"a","@","b">>)>>})),
    UserinfoHeader("object", MapOf({<<kSub, StrV(<<"u","2">>)>>,
                                    <<kId, NumV(7)>>})) }

\* x-jwt-claim-* headers, keyed by the name after the prefix.
JwtClaimHeaders ==
  { NoClaims,
    MapOf({<<kId, <<"9">>>>}),
    MapOf({<<<<"t","e","n","a","n","t","-","i","d">>, <<"a",","," ","b">>>>,
           <<kEmail, <<"a","@","b">>>>}) }

HeaderSets ==
  [kongTrust : KongTrustValues, apiKey : ApiKeyValues,
   consumerId : ConsumerIdValues, consumerUsername : ConsumerUsernameValues,
   credentialIdentifier : CredentialIdentifierValues,
   userinfo : UserinfoValues, serviceName : ServiceNameValues,
   jwtClaims : JwtClaimHeaders]

\* Request targets, as token sequences.
Urls ==
  { <<"/", "health">>,
    <<"/", "healthz">>,
    <<"/", "health", "/", "ping">>,
    <<"/", "metrics">>,
    <<"/", "auth", "/", ".well-known", "/", "jwks.json">>,
    <<"/", "well-known-users">>,
    <<"/", "wellknown", "/", "config">>,
    <<"/", "orders">>,
    <<"/", "orders?next=", "/", ".well-known", "/", "x">> }

\* <<request.url, request.path>>: Express sets both, the tests set one.
Targets ==
  {<<u, Undefined>> : u \in Urls}
    \cup {<<Undefined, Undefined>>, <<Undefined, <<"/", "metrics">>>>,
          <<<<"/", "orders">>, <<"/", "health">>>>}

\* ------------------------------------------------------------------------
\* Secrets providers: names, backing store, cache
\* ------------------------------------------------------------------------

\* `null` for a string | null slot.
Null == <<"null">>

projectName == <<"p">>

serviceName == <<"a", "-", "b">>

SharedScope == <<"s","h","a","r","e","d">>

\* The reserved top-level scope of .secrets.local.json.
TopLevelScope == <<"s","e","c","r","e","t","s">>

ApiKeyName == <<"A","P","I","_","K","E","Y">>

CloudProviders == {"gcp", "aws", "azure"}

Providers == CloudProviders \cup {"local"}

Procs == {1, 2}

\* key.replace(/_/g, '-')
transformKey(key) ==
  [i \in DOMAIN key |-> IF key[i] = "_" THEN "-" ELSE key[i]]

\* `${projectName}-${scope}-${key}`; Azure transforms the key first.
buildSecretName(prov, key, scope) ==
  projectName \o <<"-">> \o scope \o <<"-">>
    \o (IF prov = "azure" THEN transformKey(key) ELSE key)

\* Where a secret lives: a cloud secret name, or for the local provider the
\* path scope.key inside .secrets.local.json.
SecretName(prov, key, scope) ==
  IF prov = "local" THEN scope \o <<".">> \o key
  ELSE buildSecretName(prov, key, scope)

\* The shared scope of a provider.
SharedOf(prov) == IF prov = "local" THEN TopLevelScope ELSE SharedScope

\* The entry of .secrets.user.json for a key (secrets[key]).
UserSecretPath(key) == <<"u","s","e","r">> \o <<".">> \o key

\* serviceName.toUpperCase().replace(/-/g, '_')
UpperSnake(str) ==
  [i \in DOMAIN str |->
     IF str[i] = "-" THEN "_"
     ELSE IF IsLower(str[i]) THEN ToUpper(str[i]) ELSE str[i]]

\* `${serviceName.toUpperCase().replace(/-/g, '_')}_API_KEY`
SharedApiKeyOf(service) == UpperSnake(service) \o <<"_">> \o ApiKeyName

\* A GCP secret that was created and has no version yet.
NoVersion == <<"no-version">>

\* value.startsWith('https://') || value.startsWith('http://')
isUrlValue(value) ==
  \/ StartsWith(value, <<"h","t","t","p","s",":","/","/">>)
  \/ StartsWith(value, <<"h","t","t","p",":","/","/">>)

CACHE_TTL_MS == 5 * 60 * 1000

cacheTtl == 60000

\* The time-to-live of a provider's cache entries.
TtlOf(prov) == IF prov = "local" THEN cacheTtl ELSE CACHE_TTL_MS

\* A cache entry; stale records that the store was written after the value
\* was read from it.
CacheEntry(value, expiresAt, stale) ==
  [value |-> value, expiresAt |-> expiresAt, stale |-> stale]

invalidateCache_KeepsEntry(c, key) == c

\* this.cache.delete(key)
invalidateCache(c, key) == [k \in DOMAIN c \ {key} |-> c[k]]

\* The expiry test of a lookup at time t: the cloud providers' getFromCache
\* has `Date.now() > entry.expiresAt`, LocalSecretsProvider.get serves the
\* entry while `Date.now() < cached.expiresAt`.
Expired(prov, entry, t) ==
  IF prov = "local" THEN ~(t < entry.expiresAt) ELSE t > entry.expiresAt

\* getFromCache: the value served (or Null) and the cache it leaves; the
\* cloud providers delete an expired entry, the local one leaves it.
getFromCache(prov, c, key, t) ==
  IF key \notin DOMAIN c THEN [value |-> Null, cache |-> c]
  ELSE IF Expired(prov, c[key], t)
  THEN [value |-> Null,
        cache |-> IF prov = "local" THEN c ELSE invalidateCache(c, key)]
  ELSE [value |-> c[key].value, cache |-> c]

\* setCache: GCP skips URL values; AWS, Azure and local store every value.
setCache(prov, c, key, value, t, stale) ==
  IF prov = "gcp" /\ isUrlValue(value) THEN c
  ELSE [k \in DOMAIN c \cup {key} |->
          IF k = key THEN CacheEntry(value, t + TtlOf(prov), stale) ELSE c[k]]

\* A request to the backing store's API, and its response.
Request(api, name, value) == [api |-> api, name |-> name, value |-> value]

NoApiRequest == Request("none", <<>>, Null)

Response(ok, value) == [ok |-> ok, value |-> value]

NoResponse == [ok |-> FALSE, value |-> <<"no-response">>]

\* The store with one secret written or removed.
StorePut(st, name, value) ==
  [n \in DOMAIN st \cup {name} |-> IF n = name THEN value ELSE st[n]]

StoreDrop(st, name) == [n \in DOMAIN st \ {name} |-> st[n]]

\* What the backing store does with a request: the response and the store
\* afterwards.
\*   read       accessSecretVersion / GetSecretValue / getSecret (value)
\*   describe   getSecret / DescribeSecret (existence)
\*   create     GCP createSecret (no version yet)
\*   createWith AWS CreateSecret (with SecretString)
\*   addVersion GCP addSecretVersion / AWS PutSecretValue
\*   upsert     Azure setSecret
\*   delete     deleteSecret / DeleteSecret / beginDeleteSecret
StoreApply(st, req) ==
  LET has == req.name \in DOMAIN st
  IN CASE req.api = "read" ->
            IF has /\ st[req.name] # NoVersion
            THEN [resp |-> Response(TRUE, st[req.name]), store |-> st]
            ELSE [resp |-> Response(FALSE, Null), store |-> st]
       [] req.api = "describe" ->
            [resp |-> Response(has, Null), store |-> st]
       [] req.api = "create" ->
            IF has THEN [resp |-> Response(FALSE, Null), store |-> st]
            ELSE [resp |-> Response(TRUE, Null),
                  store |-> StorePut(st, req.name, NoVersion)]
       [] req.api = "createWith" ->
            IF has THEN [resp |-> Response(FALSE, Null), store |-> st]
            ELSE [resp |-> Response(TRUE, Null),
                  store |-> StorePut(st, req.name, req.value)]
       [] req.api = "addVersion" ->
            IF has
            THEN [resp |-> Response(TRUE, Null),
                  store |-> StorePut(st, req.name, req.value)]
            ELSE [resp |-> Response(FALSE, Null), store |-> st]
       [] req.api = "upsert" ->
            [resp |-> Response(TRUE, Null),
             store |-> StorePut(st, req.name, req.value)]
       [] req.api = "delete" ->
            IF has
            THEN [resp |-> Response(TRUE, Null), store |-> StoreDrop(st, req.name)]
            ELSE [resp |-> Response(FALSE, Null), store |-> st]

FetchResult_NeverFound(prov, resp) == Null

\* fetchSecretFromGCP / fetchSecretFromAWS / fetchSecretFromAzure on the
\* response of a read: the value, or null after any error; AWS and Azure
\* also turn an empty value into null (`|| null`).
FetchResult(prov, resp) ==
  IF ~resp.ok THEN Null
  ELSE IF prov \in {"aws", "azure"} /\ ~Truthy(resp.value) THEN Null
  ELSE resp.value

CacheFetched_CachesNull(prov, c, key, value, t, stale) ==
  setCache(prov, c, key, value, t, stale)

\* The end of get: `if (value !== null) this.setCache(key, value)`.
CacheFetched(prov, c, key, value, t, stale) ==
  IF value # Null THEN setCache(prov, c, key, value, t, stale) ELSE c

\* CloudProviderAdapter.get on what the provider's get returned: the value,
\* or the Error it throws, given by the parts of its message (each a
\* sequence: the fixed texts and the provider name of one element, the key
\* and the service name of their characters).
CloudProviderAdapterGet(prov, key, value) ==
  IF value = Null
  THEN [threw |-> TRUE,
        message |-> << <<"Secret \"">>, key, <<"\" not found in ">>, <<prov>>,
                       <<" for service \"">>, serviceName,
                       <<"\" or shared scope.">> >>]
  ELSE [threw |-> FALSE, message |-> value]

\* Secret keys and values the calls use, and what the shared scope holds.
Keys == {ApiKeyName, <<"D","B">>}

SecretValues == {<<"v">>, <<"h","t","t","p","s",":","/","/","x">>}

SharedValue == <<"w">>

\* No set has completed for the key since the last get of it returned.
NoSet == [value |-> Null, at |-> 0]

NoResult == [ok |-> FALSE, value |-> <<"no-result">>]

\* A call in progress: where it stands, its arguments, the pending store
\* request and its response, and what it returned.  Kept for the properties:
\* the store requests made so far (calls), the time the call started, and
\* whether the store was written after the call read it (stale).
IdleCall ==
  [pc |-> "idle", op |-> "none", key |-> <<>>, value |-> Null,
   req |-> NoApiRequest, resp |-> NoResponse, result |-> NoResult,
   calls |-> <<>>, startedAt |-> 0, stale |-> FALSE]

EmptyMap == [k \in {} |-> Null]

\* No provider call is in progress and nothing is stored or cached.
ProviderIdle ==
  /\ provider = "gcp"
  /\ store = EmptyMap
  /\ cache = EmptyMap
  /\ now = 0
  /\ ticks = 0
  /\ call = [p \in Procs |-> IdleCall]
  /\ lastSet = [k \in Keys |-> NoSet]

\* Nothing is being named or created.
NotApplied == [t |-> "not-applied"]

ConfigIdle == naming = NotApplied /\ creation = NotApplied

\* ------------------------------------------------------------------------
\* State machine: one request at a time through AuthGuard.canActivate
\* ------------------------------------------------------------------------

NoHeaders ==
  [kongTrust |-> Undefined, apiKey |-> Undefined, consumerId |-> Undefined,
   consumerUsername |-> Undefined, credentialIdentifier |-> Undefined,
   userinfo |-> UserinfoHeader("undefined", NoClaims),
   serviceName |-> Undefined, jwtClaims |-> NoClaims]

NoRequest ==
  [headers |-> NoHeaders, url |-> Undefined, path |-> Undefined,
   user |-> None, service |-> None]

GetCall(key) == [op |-> "get", key |-> key]

\* No header value is being parsed.
NotParsed == [t |-> "not-parsed"]

ParseIdle == headerValue = <<>> /\ parsed = NotParsed

Init ==
  /\ secretStore \in SecretStores
  /\ request = NoRequest
  /\ isPublic = FALSE
  /\ pc = "idle"
  /\ outcome = Pending
  /\ secretsCalls = <<>>
  /\ ParseIdle
  /\ ProviderIdle
  /\ ConfigIdle

\* The rest of canActivate once both header checks are behind it.
Finish(req, pub) ==
  LET r == AfterTrustChecks(req, pub)
  IN /\ request' = r.request
     /\ outcome' = r.outcome
     /\ pc' = "done"

canActivate_ApiKeyFirst(headers, target, pub) ==
  LET req == [headers |-> headers, url |-> target[1], path |-> target[2],
              user |-> None, service |-> None]
  IN /\ pc = "idle"
     /\ isPublic' = pub
     /\ UNCHANGED secretStore
     /\ IF Truthy(headers.apiKey)
        THEN /\ request' = req
             /\ outcome' = Pending
             /\ pc' = "validateServiceApiKey"
             /\ secretsCalls' = <<GetCall("API_KEY")>>
        ELSE IF Truthy(headers.kongTrust)
                  /\ ~IsInfrastructurePath(RequestPath(req))
        THEN /\ request' = req
             /\ outcome' = Pending
             /\ pc' = "verifyKongTrustHeader"
             /\ secretsCalls' = <<GetCall("KONG_TRUST_TOKEN")>>
        ELSE Finish(req, pub) /\ secretsCalls' = <<>>

\* canActivate up to its first await on the resolver (or to its end).
canActivate(headers, target, pub) ==
  LET req == [headers |-> headers, url |-> target[1], path |-> target[2],
              user |-> None, service |-> None]
      cameFromKong == Truthy(headers.kongTrust)
  IN /\ pc = "idle"
     /\ isPublic' = pub
     /\ UNCHANGED secretStore
     /\ IF cameFromKong
        THEN IF IsInfrastructurePath(RequestPath(req))
             THEN Finish(req, pub) /\ secretsCalls' = <<>>
             ELSE IF ~Truthy(headers.kongTrust)
             THEN /\ request' = req
                  /\ outcome' = UnauthorizedException("Unauthorized request")
                  /\ pc' = "done"
                  /\ secretsCalls' = <<>>
             ELSE /\ request' = req
                  /\ outcome' = Pending
                  /\ pc' = "verifyKongTrustHeader"
                  /\ secretsCalls' = <<GetCall("KONG_TRUST_TOKEN")>>
        ELSE IF Truthy(headers.apiKey)
        THEN /\ request' = req
             /\ outcome' = Pending
             /\ pc' = "validateServiceApiKey"
             /\ secretsCalls' = <<GetCall("API_KEY")>>
        ELSE Finish(req, pub) /\ secretsCalls' = <<>>

\* A request arrives at the guard.
Receive ==
  /\ pc = "idle"
  /\ \E h \in HeaderSets, t \in Targets, pub \in BOOLEAN : canActivate(h, t, pub)
  /\ UNCHANGED <<parseVars, providerVars, configVars>>

\* secrets.get('KONG_TRUST_TOKEN') settles; verifyKongTrustHeader and then
\* canActivate run on.
ResumeVerifyKongTrustHeader ==
  /\ pc = "verifyKongTrustHeader"
  /\ LET v == verifyKongTrustHeader(request, SecretsGet("KONG_TRUST_TOKEN"))
     IN IF v = Pending
        THEN Finish(request, isPublic)
        ELSE /\ outcome' = v
             /\ pc' = "done"
             /\ UNCHANGED request
  /\ UNCHANGED <<secretStore, isPublic, secretsCalls, parseVars, providerVars, configVars>>

\* secrets.get('API_KEY') settles; validateServiceApiKey and then canActivate
\* run on.
ResumeValidateServiceApiKey ==
  /\ pc = "validateServiceApiKey"
  /\ LET v == validateServiceApiKey(request, SecretsGet("API_KEY"))
     IN IF v.outcome = Pending
        THEN Finish(v.request, isPublic)
        ELSE /\ outcome' = v.outcome
             /\ request' = v.request
             /\ pc' = "done"
  /\ UNCHANGED <<secretStore, isPublic, secretsCalls, parseVars, providerVars, configVars>>

\* The framework takes the decision; the guard is ready for the next request.
Respond ==
  /\ pc = "done"
  /\ pc' = "idle"
  /\ request' = NoRequest
  /\ isPublic' = FALSE
  /\ outcome' = Pending
  /\ secretsCalls' = <<>>
  /\ UNCHANGED <<secretStore, parseVars, providerVars, configVars>>

Next ==
  \/ Receive
  \/ ResumeVerifyKongTrustHeader
  \/ ResumeValidateServiceApiKey
  \/ Respond

Spec == Init /\ [][Next]_vars

\* ------------------------------------------------------------------------
\* State machine: header values through parseHeaderValue and parseValue
\* ------------------------------------------------------------------------

\* Characters of the header values tried exhaustively, and their longest
\* length.
ParseChars == {",", " ", "0", "1", "a"}

MaxHeaderLen == 4

\* Header values taken from the parser's tests.
TestedHeaders ==
  { <<"t","r","u","e">>, <<"f","a","l","s","e">>, <<"T","r","u","e">>,
    <<"t","r","u","e",",","f","a","l","s","e">>,
    <<"1",",","2",",","3">>, <<"1","2","3">>, <<"1","2",".","5">>,
    <<"-","1","2","3">>, <<"1","2","3","a","b","c">>,
    <<"U","S","E","R",","," ","A","D","M","I","N">>,
    <<"r","e","a","d"," ",","," ","w","r","i","t","e">>,
    <<" "," "," ">> }

HeaderStrings ==
  TestedHeaders \cup UNION {[1..n -> ParseChars] : n \in 0..MaxHeaderLen}

\* The guard is at rest and holds no secrets.
GuardIdle ==
  /\ secretStore = [KONG_TRUST_TOKEN |-> NotFound, API_KEY |-> NotFound]
  /\ request = NoRequest
  /\ isPublic = FALSE
  /\ pc = "idle"
  /\ outcome = Pending
  /\ secretsCalls = <<>>

ParseInit ==
  /\ headerValue \in HeaderStrings
  /\ parsed = NotParsed
  /\ GuardIdle
  /\ ProviderIdle
  /\ ConfigIdle

\* Both parsers are applied to the header value.
ParseHeader ==
  /\ parsed = NotParsed
  /\ parsed' = [byParseHeaderValue |-> parseHeaderValue(headerValue),
                byParseValue |-> parseValue(headerValue)]
  /\ UNCHANGED <<headerValue, guardVars, providerVars, configVars>>

\* The next claim header comes up.
NextHeader ==
  /\ parsed # NotParsed
  /\ \E v \in HeaderStrings : headerValue' = v
  /\ parsed' = NotParsed
  /\ UNCHANGED <<guardVars, providerVars, configVars>>

ParseNext ==
  \/ ParseHeader
  \/ NextHeader

SpecParse == ParseInit /\ [][ParseNext]_vars

\* ------------------------------------------------------------------------
\* State machine: calls on one secrets provider instance
\* ------------------------------------------------------------------------

\* How often the clock advances in a run.
MaxTicks == 2

\* What the store holds when the provider is constructed, as sets of
\* <<scope, key, value>>: nothing; shared secrets only; service-scoped and
\* shared secrets; a shared URL.
InitialSecrets(prov) ==
  { {},
    { <<SharedOf(prov), <<"D","B">>, SharedValue>>,
      <<SharedOf(prov), SharedApiKeyOf(serviceName), SharedValue>> },
    { <<serviceName, <<"D","B">>, <<"v">>>>,
      <<SharedOf(prov), <<"D","B">>, SharedValue>>,
      <<serviceName, ApiKeyName, <<"v">>>>,
      <<SharedOf(prov), ApiKeyName, SharedValue>> },
    { <<SharedOf(prov), <<"D","B">>, <<"h","t","t","p",":","/","/","y">>>> } }

StoreOf(prov, secrets) ==
  [n \in {SecretName(prov, t[2], t[1]) : t \in secrets} |->
     (CHOOSE t \in secrets : SecretName(prov, t[2], t[1]) = n)[3]]

\* What a get of the key that misses the cache resolves to on a store: GCP
\* reads API_KEY under the per-service shared name only; otherwise the
\* service scope first, then the shared scope.  The local provider passes
\* over an empty value (`if (!value)`).
Lookup(prov, st, key) ==
  LET read(n) == IF n \in DOMAIN st /\ st[n] # NoVersion THEN st[n] ELSE Null
      svc == read(SecretName(prov, key, serviceName))
      shd == read(SecretName(prov, key, SharedOf(prov)))
  IN IF prov = "gcp" /\ key = ApiKeyName
     THEN read(buildSecretName(prov, SharedApiKeyOf(serviceName), SharedScope))
     ELSE IF prov = "local"
     THEN IF Truthy(svc) /\ svc # Null THEN svc
          ELSE IF Truthy(shd) /\ shd # Null THEN shd ELSE Null
     ELSE IF svc # Null THEN svc ELSE shd

Returned(c, result) ==
  [c EXCEPT !.pc = "returned", !.result = result,
            !.req = NoApiRequest, !.resp = NoResponse]

Send(c, stage, req) ==
  [c EXCEPT !.pc = stage, !.req = req, !.resp = NoResponse]

\* get(key) of a cloud provider up to its first await.
CallGet(p, key) ==
  LET hit == getFromCache(provider, cache, key, now)
      c == [IdleCall EXCEPT !.op = "get", !.key = key, !.startedAt = now]
  IN /\ provider \in CloudProviders
     /\ call[p].pc = "idle"
     /\ cache' = hit.cache
     /\ call' = [call EXCEPT ![p] =
          IF hit.value # Null THEN Returned(c, Response(TRUE, hit.value))
          ELSE IF provider = "gcp" /\ key = ApiKeyName
          THEN Send(c, "get:shared",
                    Request("read",
                            buildSecretName(provider,
                                            SharedApiKeyOf(serviceName),
                                            SharedScope), Null))
          ELSE Send(c, "get:service",
                    Request("read",
                            buildSecretName(provider, key, serviceName), Null))]
     /\ UNCHANGED <<guardVars, parseVars, configVars, provider, store, now, ticks, lastSet>>

\* The backing store serves the pending request of a call.  A write that
\* changes what the key resolves to marks as stale the cache entry of the key
\* and every get of the key that has already read the store.
StoreExec(p) ==
  LET c == call[p]
      r == StoreApply(store, c.req)
      changed == Lookup(provider, store, c.key) # Lookup(provider, r.store, c.key)
  IN /\ c.req # NoApiRequest
     /\ c.req.api # "regenerate"
     /\ c.resp = NoResponse
     /\ store' = r.store
     /\ call' = [q \in Procs |->
          IF q = p THEN [c EXCEPT !.resp = r.resp, !.calls = Append(@, c.req)]
          ELSE IF /\ changed /\ call[q].op = "get" /\ call[q].key = c.key
                  /\ call[q].calls # <<>> /\ call[q].pc # "returned"
          THEN [call[q] EXCEPT !.stale = TRUE]
          ELSE call[q]]
     /\ cache' = IF changed /\ c.key \in DOMAIN cache
                 THEN [cache EXCEPT ![c.key].stale = TRUE]
                 ELSE cache
     /\ UNCHANGED <<guardVars, parseVars, configVars, provider, now, ticks, lastSet>>

\* get(key) after a fetch settled: the shared-scope fallback, or setCache
\* and return.
ResumeGet(p) ==
  LET c == call[p]
      value == FetchResult(provider, c.resp)
  IN /\ c.pc \in {"get:service", "get:shared"}
     /\ c.resp # NoResponse
     /\ IF c.pc = "get:service" /\ value = Null
        THEN /\ call' = [call EXCEPT ![p] =
                  Send(c, "get:shared",
                       Request("read",
                               buildSecretName(provider, c.key, SharedScope),
                               Null))]
             /\ UNCHANGED cache
        ELSE /\ call' = [call EXCEPT ![p] = Returned(c, Response(TRUE, value))]
             /\ cache' = CacheFetched(provider, cache, c.key, value, now, c.stale)
     /\ UNCHANGED <<guardVars, parseVars, configVars, provider, store, now, ticks, lastSet>>

\* The write that set ends with once exists(key) is known: GCP adds a
\* version; AWS puts the value, or creates the secret with it.
SetWrite(prov, key, value, exists) ==
  IF prov = "aws" /\ ~exists
  THEN Request("createWith", buildSecretName(prov, key, serviceName), value)
  ELSE Request("addVersion", buildSecretName(prov, key, serviceName), value)

\* set(key, value) of a cloud provider up to its first await: GCP and AWS
\* begin exists(key) with the service-scoped secret, Azure calls setSecret.
CallSet(p, key, value) ==
  LET c == [IdleCall EXCEPT !.op = "set", !.key = key, !.value = value,
                            !.startedAt = now]
      name == buildSecretName(provider, key, serviceName)
  IN /\ provider \in CloudProviders
     /\ call[p].pc = "idle"
     /\ call' = [call EXCEPT ![p] =
          IF provider = "azure"
          THEN Send(c, "set:write", Request("upsert", name, value))
          ELSE Send(c, "set:exists:service", Request("describe", name, Null))]
     /\ UNCHANGED <<guardVars, parseVars, configVars, provider, store, cache, now, ticks, lastSet>>

\* set after a store request settled: exists() goes on to the shared scope,
\* the secret is created, the value is written, and at the end the cache
\* entry is invalidated; a failed request makes set throw.
ResumeSet(p) ==
  LET c == call[p]
      name == buildSecretName(provider, c.key, serviceName)
      failed == Returned(c, Response(FALSE, Null))
  IN /\ c.pc \in {"set:exists:service", "set:exists:shared",
                  "set:create", "set:write"}
     /\ c.resp # NoResponse
     /\ IF c.pc = "set:write" /\ c.resp.ok
        THEN /\ cache' = invalidateCache(cache, c.key)
             /\ lastSet' = [lastSet EXCEPT ![c.key] = [value |-> c.value, at |-> now]]
             /\ call' = [call EXCEPT ![p] = Returned(c, Response(TRUE, Null))]
        ELSE /\ UNCHANGED <<cache, lastSet>>
             /\ call' = [call EXCEPT ![p] =
                  CASE c.pc = "set:exists:service" /\ c.resp.ok ->
                         Send(c, "set:write", SetWrite(provider, c.key, c.value, TRUE))
                    [] c.pc = "set:exists:service" /\ ~c.resp.ok ->
                         Send(c, "set:exists:shared",
                              Request("describe",
                                      buildSecretName(provider, c.key, SharedScope),
                                      Null))
                    [] c.pc = "set:exists:shared" /\ c.resp.ok ->
                         Send(c, "set:write", SetWrite(provider, c.key, c.value, TRUE))
                    [] c.pc = "set:exists:shared" /\ ~c.resp.ok ->
                         IF provider = "gcp"
                         THEN Send(c, "set:create", Request("create", name, Null))
                         ELSE Send(c, "set:write",
                                   SetWrite(provider, c.key, c.value, FALSE))
                    [] c.pc = "set:create" /\ c.resp.ok ->
                         Send(c, "set:write", SetWrite(provider, c.key, c.value, TRUE))
                    [] OTHER -> failed]
     /\ UNCHANGED <<guardVars, parseVars, configVars, provider, store, now, ticks>>

\* remove(key) of a cloud provider up to its await.
CallRemove(p, key) ==
  LET c == [IdleCall EXCEPT !.op = "remove", !.key = key, !.startedAt = now]
  IN /\ provider \in CloudProviders
     /\ call[p].pc = "idle"
     /\ call' = [call EXCEPT ![p] =
          Send(c, "remove:delete",
               Request("delete", buildSecretName(provider, key, serviceName),
                       Null))]
     /\ UNCHANGED <<guardVars, parseVars, configVars, provider, store, cache, now, ticks, lastSet>>

\* remove after the delete settled: invalidate the cache entry, or throw.
ResumeRemove(p) ==
  LET c == call[p]
  IN /\ c.pc = "remove:delete"
     /\ c.resp # NoResponse
     /\ call' = [call EXCEPT ![p] = Returned(c, Response(c.resp.ok, Null))]
     /\ cache' = IF c.resp.ok THEN invalidateCache(cache, c.key) ELSE cache
     /\ lastSet' = IF c.resp.ok THEN [lastSet EXCEPT ![c.key] = NoSet] ELSE lastSet
     /\ UNCHANGED <<guardVars, parseVars, configVars, provider, store, now, ticks>>

\* The caller takes the settled promise of a call.
Return(p) ==
  /\ call[p].pc = "returned"
  /\ call' = [call EXCEPT ![p] = IdleCall]
  /\ lastSet' = IF call[p].op = "get"
                THEN [lastSet EXCEPT ![call[p].key] = NoSet]
                ELSE lastSet
  /\ UNCHANGED <<guardVars, parseVars, configVars, provider, store, cache, now, ticks>>

\* LocalSecretsProvider.get(key): no await inside, so one step.  A miss
\* reloads .secrets.local.json; a key found in neither scope makes it throw.
LocalGet(p, key) ==
  LET hit == getFromCache("local", cache, key, now)
      value == Lookup("local", store, key)
      c == [IdleCall EXCEPT !.op = "get", !.key = key, !.startedAt = now]
      loaded == [c EXCEPT !.calls =
                   <<Request("read", <<".secrets.local.json">>, Null)>>]
  IN /\ provider = "local"
     /\ call[p].pc = "idle"
     /\ IF hit.value # Null
        THEN /\ call' = [call EXCEPT ![p] = Returned(c, Response(TRUE, hit.value))]
             /\ cache' = hit.cache
        ELSE IF value = Null
        THEN /\ call' = [call EXCEPT ![p] = Returned(loaded, Response(FALSE, Null))]
             /\ cache' = hit.cache
        ELSE /\ call' = [call EXCEPT ![p] = Returned(loaded, Response(TRUE, value))]
             /\ cache' = setCache("local", hit.cache, key, value, now, FALSE)
     /\ UNCHANGED <<guardVars, parseVars, configVars, provider, store, now, ticks, lastSet>>

\* LocalSecretsProvider.set(key, value) up to its await: secrets[key] of
\* .secrets.user.json is written and the regeneration command is started.
LocalSet(p, key, value) ==
  LET c == [IdleCall EXCEPT !.op = "set", !.key = key, !.value = value,
                            !.startedAt = now]
  IN /\ provider = "local"
     /\ call[p].pc = "idle"
     /\ store' = StorePut(store, UserSecretPath(key), value)
     /\ call' = [call EXCEPT ![p] =
          Send(c, "local:regenerate",
               Request("regenerate", <<"npx tsdevstack generate-secrets">>, Null))]
     /\ UNCHANGED <<guardVars, parseVars, configVars, provider, cache, now, ticks, lastSet>>

\* `npx tsdevstack generate-secrets` runs outside the provider: it fails, or
\* it writes the entries of .secrets.user.json into the top-level scope of
\* .secrets.local.json.
Regenerate(p) ==
  LET c == call[p]
      users == {k \in Keys : UserSecretPath(k) \in DOMAIN store}
      merged == [n \in DOMAIN store
                        \cup {SecretName("local", k, TopLevelScope) : k \in users} |->
                   IF \E k \in users : n = SecretName("local", k, TopLevelScope)
                   THEN store[UserSecretPath(
                          CHOOSE k \in users : n = SecretName("local", k, TopLevelScope))]
                   ELSE store[n]]
  IN /\ c.req.api = "regenerate"
     /\ c.resp = NoResponse
     /\ \E ok \in BOOLEAN :
          /\ store' = IF ok THEN merged ELSE store
          /\ call' = [call EXCEPT ![p] =
               [c EXCEPT !.resp = Response(ok, Null), !.calls = Append(@, c.req)]]
     /\ UNCHANGED <<guardVars, parseVars, configVars, provider, cache, now, ticks, lastSet>>

ResumeLocalSet_ClearsFirst(p) ==
  LET c == call[p]
  IN /\ c.pc = "local:regenerate"
     /\ c.resp # NoResponse
     /\ call' = [call EXCEPT ![p] = Returned(c, Response(c.resp.ok, Null))]
     /\ cache' = EmptyMap
     /\ lastSet' = IF c.resp.ok
                   THEN [lastSet EXCEPT ![c.key] = [value |-> c.value, at |-> now]]
                   ELSE lastSet
     /\ UNCHANGED <<guardVars, parseVars, configVars, provider, store, now, ticks>>

\* LocalSecretsProvider.set after the command ended: clearCache(), or throw.
ResumeLocalSet(p) ==
  LET c == call[p]
  IN /\ c.pc = "local:regenerate"
     /\ c.resp # NoResponse
     /\ call' = [call EXCEPT ![p] = Returned(c, Response(c.resp.ok, Null))]
     /\ cache' = IF c.resp.ok THEN EmptyMap ELSE cache
     /\ lastSet' = IF c.resp.ok
                   THEN [lastSet EXCEPT ![c.key] = [value |-> c.value, at |-> now]]
                   ELSE lastSet
     /\ UNCHANGED <<guardVars, parseVars, configVars, provider, store, now, ticks>>

\* Time passes: by a millisecond, or by the time-to-live.
Tick ==
  /\ ticks < MaxTicks
  /\ \E d \in {1, TtlOf(provider)} : now' = now + d
  /\ ticks' = ticks + 1
  /\ UNCHANGED <<guardVars, parseVars, configVars, provider, store, cache, call, lastSet>>

ProviderInit ==
  /\ provider \in Providers
  /\ store \in {StoreOf(provider, secrets) : secrets \in InitialSecrets(provider)}
  /\ cache = EmptyMap
  /\ now = 0
  /\ ticks = 0
  /\ call = [p \in Procs |-> IdleCall]
  /\ lastSet = [k \in Keys |-> NoSet]
  /\ GuardIdle
  /\ ParseIdle
  /\ ConfigIdle

\* One caller, one call at a time, on any provider, while time passes.
ProviderNext ==
  \/ \E k \in DOMAIN lastSet : CallGet(1, k)
  \/ \E k \in DOMAIN lastSet, v \in SecretValues : CallSet(1, k, v)
  \/ \E k \in DOMAIN lastSet : CallRemove(1, k)
  \/ StoreExec(1)
  \/ ResumeGet(1)
  \/ ResumeSet(1)
  \/ ResumeRemove(1)
  \/ \E k \in DOMAIN lastSet : LocalGet(1, k)
  \/ \E k \in DOMAIN lastSet, v \in SecretValues : LocalSet(1, k, v)
  \/ Regenerate(1)
  \/ ResumeLocalSet(1)
  \/ Return(1)
  \/ Tick

SpecProvider == ProviderInit /\ [][ProviderNext]_vars

\* A cloud provider whose callers all use the same key.
RaceInit ==
  /\ provider \in CloudProviders
  /\ store \in {StoreOf(provider, secrets) : secrets \in InitialSecrets(provider)}
  /\ cache = EmptyMap
  /\ now = 0
  /\ ticks = 0
  /\ call = [p \in Procs |-> IdleCall]
  /\ \E k \in Keys : lastSet = [j \in {k} |-> NoSet]
  /\ GuardIdle
  /\ ParseIdle
  /\ ConfigIdle

\* Two callers of one cloud provider instance, their calls interleaved at
\* the awaits: both read, the second also writes.
RaceNext ==
  \/ \E p \in Procs, k \in DOMAIN lastSet : CallGet(p, k)
  \/ \E k \in DOMAIN lastSet, v \in SecretValues : CallSet(2, k, v)
  \/ \E k \in DOMAIN lastSet : CallRemove(2, k)
  \/ \E p \in Procs : StoreExec(p)
  \/ \E p \in Procs : ResumeGet(p)
  \/ ResumeSet(2)
  \/ ResumeRemove(2)
  \/ \E p \in Procs : Return(p)

SpecRace == RaceInit /\ [][RaceNext]_vars

\* The backing store fails the pending request of a call for a reason other
\* than not-found (permission denied, network failure, timeout): nothing is
\* stored, and the request is kept among the call's requests as "failed".
StoreFail(p) ==
  LET c == call[p]
  IN /\ c.req # NoApiRequest
     /\ c.req.api # "regenerate"
     /\ c.resp = NoResponse
     /\ call' = [call EXCEPT ![p] =
          [c EXCEPT !.resp = Response(FALSE, <<"unavailable">>),
                    !.calls = Append(@, Request("failed", c.req.name, c.req.value))]]
     /\ UNCHANGED <<guardVars, parseVars, configVars, provider, store, cache, now, ticks, lastSet>>

\* One caller of a cloud provider whose backing store may fail any request.
FaultNext ==
  \/ \E k \in DOMAIN lastSet : CallGet(1, k)
  \/ \E k \in DOMAIN lastSet, v \in SecretValues : CallSet(1, k, v)
  \/ \E k \in DOMAIN lastSet : CallRemove(1, k)
  \/ StoreExec(1)
  \/ StoreFail(1)
  \/ ResumeGet(1)
  \/ ResumeSet(1)
  \/ ResumeRemove(1)
  \/ Return(1)

SpecFault == RaceInit /\ [][FaultNext]_vars

\* What clearCache() of the provider inside SecretsService leaves of the
\* cache: LocalSecretsProvider clears its Map, CloudProviderAdapter has an
\* empty body.
clearCache(prov, c) == IF prov = "local" THEN EmptyMap ELSE c

\* The entry of lastSet after clearCache(): the cache was cleared and no get
\* of the key has returned since.
Cleared(t) == [value |-> <<"cleared">>, at |-> t]

\* SecretsService.clearCache(), called between two calls.
ClearCache(p) ==
  /\ call[p].pc = "idle"
  /\ cache' = clearCache(provider, cache)
  /\ lastSet' = [k \in DOMAIN lastSet |-> Cleared(now)]
  /\ UNCHANGED <<guardVars, parseVars, configVars, provider, store, now, ticks, call>>

\* One caller that reads secrets and clears the cache, on any provider.
ClearNext ==
  \/ \E k \in DOMAIN lastSet : CallGet(1, k)
  \/ StoreExec(1)
  \/ ResumeGet(1)
  \/ \E k \in DOMAIN lastSet : LocalGet(1, k)
  \/ ClearCache(1)
  \/ Return(1)
  \/ Tick

SpecClear == ProviderInit /\ [][ClearNext]_vars

\* LocalSecretsProvider.delete(key) up to its await: a key that
\* .secrets.user.json does not hold makes it throw; otherwise the key is
\* removed from the file and the regeneration command is started.
LocalDelete(p, key) ==
  LET c == [IdleCall EXCEPT !.op = "delete", !.key = key, !.startedAt = now]
      held == /\ UserSecretPath(key) \in DOMAIN store
              /\ Truthy(store[UserSecretPath(key)])
  IN /\ provider = "local"
     /\ call[p].pc = "idle"
     /\ IF held
        THEN /\ store' = StoreDrop(store, UserSecretPath(key))
             /\ call' = [call EXCEPT ![p] =
                  Send(c, "local:delete:regenerate",
                       Request("regenerate",
                               <<"npx tsdevstack generate-secrets">>, Null))]
        ELSE /\ store' = store
             /\ call' = [call EXCEPT ![p] = Returned(c, Response(FALSE, Null))]
     /\ UNCHANGED <<guardVars, parseVars, configVars, provider, cache, now, ticks, lastSet>>

\* LocalSecretsProvider.delete after the command ended: clearCache(), or
\* throw.
ResumeLocalDelete(p) ==
  LET c == call[p]
  IN /\ c.pc = "local:delete:regenerate"
     /\ c.resp # NoResponse
     /\ call' = [call EXCEPT ![p] = Returned(c, Response(c.resp.ok, Null))]
     /\ cache' = IF c.resp.ok THEN EmptyMap ELSE cache
     /\ lastSet' = IF c.resp.ok THEN [lastSet EXCEPT ![c.key] = NoSet] ELSE lastSet
     /\ UNCHANGED <<guardVars, parseVars, configVars, provider, store, now, ticks>>

LocalInit == ProviderInit /\ provider = "local"

\* One caller of the local provider.
LocalNext ==
  \/ \E k \in DOMAIN lastSet : LocalGet(1, k)
  \/ \E k \in DOMAIN lastSet, v \in SecretValues : LocalSet(1, k, v)
  \/ \E k \in DOMAIN lastSet : LocalDelete(1, k)
  \/ Regenerate(1)
  \/ ResumeLocalSet(1)
  \/ ResumeLocalDelete(1)
  \/ Return(1)
  \/ Tick

SpecLocal == LocalInit /\ [][LocalNext]_vars

\* ------------------------------------------------------------------------
\* State machine: list() key recovery and SecretsProviderFactory
\* ------------------------------------------------------------------------

\* key.replace(/-/g, '_')
reverseTransformKey(key) ==
  [i \in DOMAIN key |-> IF key[i] = "-" THEN "_" ELSE key[i]]

\* s.split('-').slice(1).join('-'): s after its first '-', '' if it has none.
RECURSIVE AfterDash(_)
AfterDash(s) ==
  IF s = <<>> THEN <<>>
  ELSE IF s[1] = "-" THEN Tail(s) ELSE AfterDash(Tail(s))

\* GCPSecretsProvider.extractKeyFromSecretId: parts.slice(2).join('-')
extractKeyFromSecretId(secretId) == AfterDash(AfterDash(secretId))

\* extractKeyFromSecretName of the AWS and Azure providers; Azure reverses
\* its key transform at the end.
extractKeyFromSecretName(prov, service, secretName) ==
  LET withoutProject ==
        SubSeq(secretName, Len(projectName) + 2, Len(secretName))
      key ==
        IF StartsWith(withoutProject, service \o <<"-">>)
        THEN SubSeq(withoutProject, Len(service) + 2, Len(withoutProject))
        ELSE IF StartsWith(withoutProject, SharedScope \o <<"-">>)
        THEN SubSeq(withoutProject, Len(SharedScope) + 2, Len(withoutProject))
        ELSE IF \E i \in DOMAIN withoutProject : withoutProject[i] = "-"
        THEN AfterDash(withoutProject)
        ELSE withoutProject
  IN IF prov = "azure" THEN reverseTransformKey(key) ELSE key

\* Service names, and the logical keys: every string over KeyChars of 1 to
\* MaxKeyLen characters.
ServiceNames == {serviceName, <<"a">>}

KeyChars == {"K", "_", "-"}

MaxKeyLen == 2

LogicalKeys == UNION {[1..n -> KeyChars] : n \in 1..MaxKeyLen}

NotListed == <<"not-listed">>

\* A secret a provider of a service stored for a key in the service's scope
\* or in the shared scope, not yet listed.
NamedSecrets ==
  { r \in [prov : CloudProviders, service : ServiceNames,
           scope : ServiceNames \cup {SharedScope}, key : LogicalKeys,
           listed : {NotListed}] :
      r.scope \in {r.service, SharedScope} }

\* list() comes to the secret and recovers its key.
ListSecret ==
  /\ naming # NotApplied
  /\ naming.listed = NotListed
  /\ naming' = [naming EXCEPT !.listed =
       IF naming.prov = "gcp"
       THEN extractKeyFromSecretId(
              buildSecretName(naming.prov, naming.key, naming.scope))
       ELSE extractKeyFromSecretName(naming.prov, naming.service,
              buildSecretName(naming.prov, naming.key, naming.scope))]
  /\ UNCHANGED <<guardVars, parseVars, providerVars, creation>>

\* The environment variables the factory reads.
EnvVars ==
  {"PROJECT_NAME", "GCP_PROJECT_ID", "K_SERVICE",
   "GOOGLE_APPLICATION_CREDENTIALS", "AWS_REGION",
   "AWS_CONTAINER_CREDENTIALS_RELATIVE_URI", "AWS_ACCESS_KEY_ID",
   "AWS_SECRET_ACCESS_KEY", "AZURE_CLIENT_ID", "AZURE_CLIENT_SECRET",
   "AZURE_TENANT_ID", "AZURE_KEYVAULT_NAME"}

\* validateProviderEnvVars: the `missing` array, in push order.  Each check
\* is <<the name pushed, the variables one of which must be set>>; env is
\* the set of variables with a non-empty value.
validateProviderEnvVars(type, env) ==
  LET checks ==
        CASE type = "gcp" ->
               << <<"GCP_PROJECT_ID", {"GCP_PROJECT_ID"}>>,
                  <<"GOOGLE_APPLICATION_CREDENTIALS",
                    {"K_SERVICE", "GOOGLE_APPLICATION_CREDENTIALS"}>> >>
          [] type = "aws" ->
               << <<"AWS_REGION", {"AWS_REGION"}>>,
                  <<"AWS_ACCESS_KEY_ID",
                    {"AWS_CONTAINER_CREDENTIALS_RELATIVE_URI", "AWS_ACCESS_KEY_ID"}>>,
                  <<"AWS_SECRET_ACCESS_KEY",
                    {"AWS_CONTAINER_CREDENTIALS_RELATIVE_URI",
                     "AWS_SECRET_ACCESS_KEY"}>> >>
          [] type = "azure" ->
               << <<"AZURE_CLIENT_ID", {"AZURE_CLIENT_ID"}>>,
                  <<"AZURE_CLIENT_SECRET", {"AZURE_CLIENT_SECRET"}>>,
                  <<"AZURE_TENANT_ID", {"AZURE_TENANT_ID"}>>,
                  <<"AZURE_KEYVAULT_NAME", {"AZURE_KEYVAULT_NAME"}>> >>
          [] OTHER -> <<>>
      Unmet(check) == check[2] \cap env = {}
      unmet == SelectSeq(checks, Unmet)
  IN [i \in DOMAIN unmet |-> unmet[i][1]]

\* SecretsProviderFactory.createProvider: whether it threw, the variables
\* its error names, and the provider class it constructed.
createProvider(type, env) ==
  IF type = "local"
  THEN [threw |-> FALSE, names |-> <<>>, constructed |-> "none"]
  ELSE IF "PROJECT_NAME" \notin env
  THEN [threw |-> TRUE, names |-> <<"PROJECT_NAME">>, constructed |-> "none"]
  ELSE IF validateProviderEnvVars(type, env) # <<>>
  THEN [threw |-> TRUE, names |-> validateProviderEnvVars(type, env),
        constructed |-> "none"]
  ELSE [threw |-> FALSE, names |-> <<>>, constructed |-> type]

NotCreated == [threw |-> FALSE, names |-> <<>>, constructed |-> "not-called"]

\* createProvider is called in the environment at hand.
CreateProvider ==
  /\ creation # NotApplied
  /\ creation.result = NotCreated
  /\ creation' = [creation EXCEPT !.result =
                    createProvider(creation.type, creation.env)]
  /\ UNCHANGED <<guardVars, parseVars, providerVars, naming>>

\* Either a stored secret is at hand, or a process environment with
\* SECRETS_PROVIDER set.
ConfigInit ==
  /\ \/ naming \in NamedSecrets /\ creation = NotApplied
     \/ /\ naming = NotApplied
        /\ creation \in [type : Providers, env : SUBSET EnvVars,
                          result : {NotCreated}]
  /\ GuardIdle
  /\ ParseIdle
  /\ ProviderIdle

ConfigNext ==
  \/ ListSecret
  \/ CreateProvider

SpecConfig == ConfigInit /\ [][ConfigNext]_vars

\* ------------------------------------------------------------------------
\* Vocabulary of the properties
\* ------------------------------------------------------------------------

Done == pc = "done"

Admitted == Done /\ outcome = Admit

InvalidTrust == UnauthorizedException("Unauthorized request")

InvalidApiKey == ForbiddenException("Invalid API key")

NoAuthentication == UnauthorizedException("No authentication provided")

\* The resolver holds a non-empty value for the key.
Configured(key) == secretStore[key] \notin {NotFound, <<>>}

\* The request carries the header (with a non-empty value).
Carries(v) == v # Undefined /\ v # <<>>

\* The request carries an x-kong-trust header equal to KONG_TRUST_TOKEN.
TrustValid ==
  /\ Carries(request.headers.kongTrust)
  /\ Configured("KONG_TRUST_TOKEN")
  /\ request.headers.kongTrust = secretStore["KONG_TRUST_TOKEN"]

\* The request carries an x-kong-trust header that differs from the
\* configured KONG_TRUST_TOKEN.
TrustInvalid ==
  /\ Carries(request.headers.kongTrust)
  /\ Configured("KONG_TRUST_TOKEN")
  /\ request.headers.kongTrust # secretStore["KONG_TRUST_TOKEN"]

\* The bypass-eligible targets among Urls, listed by hand: /health,
\* /health/..., /metrics, and those containing /.well-known/.
BypassEligiblePaths ==
  { <<"/", "health">>,
    <<"/", "health", "/", "ping">>,
    <<"/", "metrics">>,
    <<"/", "auth", "/", ".well-known", "/", "jwks.json">>,
    <<"/", "orders?next=", "/", ".well-known", "/", "x">> }

BypassEligible == RequestPath(request) \in BypassEligiblePaths

IdentitySignal ==
  \/ Carries(request.headers.consumerId)
  \/ Carries(request.headers.credentialIdentifier)
  \/ request.headers.userinfo.kind \notin {"undefined", "empty"}

NoAuthHeaders ==
  /\ ~IdentitySignal
  /\ ~Carries(request.headers.consumerUsername)
  /\ ~Carries(request.headers.apiKey)

\* ------------------------------------------------------------------------
\* Properties
\* ------------------------------------------------------------------------

\* C1: a request to a public route on a path that is not bypass-eligible is
\* admitted only if it carried an x-kong-trust header equal to
\* KONG_TRUST_TOKEN.
C1_PublicRouteRequiresTrust ==
  (Admitted /\ isPublic /\ ~BypassEligible) => TrustValid

\* C2: an admitted request never carries both request.user and
\* request.service; when an identity signal is present on a non-public route
\* only request.user is set.
C2_NeverUserAndService ==
  /\ Admitted => ~(request.user # None /\ request.service # None)
  /\ (Admitted /\ ~isPublic /\ IdentitySignal)
       => (request.user # None /\ request.service = None)

C4_NoSignalNeverAdmitted ==
  (Done /\ ~isPublic /\ NoAuthHeaders)
    => /\ outcome # Admit
       /\ (TrustValid \/ BypassEligible \/ ~Carries(request.headers.kongTrust))
            => outcome = NoAuthentication

C4_Witness ==
  /\ Done /\ ~isPublic /\ NoAuthHeaders
  /\ RequestPath(request) = <<"/", "auth", "/", ".well-known", "/", "jwks.json">>
  /\ TrustInvalid
  /\ outcome = NoAuthentication

\* C5: every call to canActivate ends in Admit or in a rejection whose reason
\* is invalid-trust, invalid-api-key or no-authentication, whatever the
\* resolver holds.
C5_OnlyThreeReasons ==
  Done => outcome \in {Admit, InvalidTrust, InvalidApiKey, NoAuthentication}

\* C6: a request with no x-kong-trust header and an x-api-key that differs
\* from the service's API_KEY is rejected with invalid-api-key, also on a
\* public route and with identity headers present, and request.service is
\* not set.
C6_WrongApiKeyRejected ==
  (/\ Done
   /\ ~Carries(request.headers.kongTrust)
   /\ Carries(request.headers.apiKey)
   /\ Configured("API_KEY")
   /\ request.headers.apiKey # secretStore["API_KEY"])
    => /\ outcome = InvalidApiKey
       /\ request.service = None
       /\ request.user = None

C6_Witness ==
  /\ Done
  /\ ~Carries(request.headers.kongTrust)
  /\ Carries(request.headers.apiKey)
  /\ Configured("API_KEY")
  /\ request.headers.apiKey # secretStore["API_KEY"]
  /\ isPublic
  /\ Carries(request.headers.consumerId)
  /\ outcome = InvalidApiKey

C8_IdIsConsumerId ==
  (/\ Done /\ ~isPublic /\ TrustValid
   /\ Carries(request.headers.consumerId)
   /\ request.headers.userinfo.kind \in {"undefined", "empty"})
    => /\ outcome = Admit
       /\ request.user # None
       /\ request.user[1][kId] = StrV(request.headers.consumerId)

\* C9: whenever the guard attaches an Identity, its id is a present string.
C9_IdAlwaysString ==
  (Done /\ request.user # None) => request.user[1][kId].t = "string"

\* C10: after every rejection and after every admission of a public route
\* neither request.user nor request.service is set, and the guard only ever
\* calls get on the resolver.
C10_NoAttachmentUnlessIdentityAdmit ==
  /\ (Done /\ (outcome # Admit \/ isPublic))
       => (request.user = None /\ request.service = None)
  /\ \A i \in DOMAIN secretsCalls : secretsCalls[i].op = "get"

\* C11: a request to a non-public route with a valid trust header and an
\* x-api-key header, and none of x-consumer-id, x-credential-identifier,
\* x-userinfo and x-consumer-username, is admitted as service 'partner'
\* whatever the x-api-key value; API_KEY is fetched only for requests without
\* a trust header.
C11_PartnerFallback ==
  /\ (/\ Done /\ ~isPublic /\ TrustValid
      /\ Carries(request.headers.apiKey)
      /\ ~IdentitySignal
      /\ ~Carries(request.headers.consumerUsername))
       => /\ outcome = Admit
          /\ request.service = Some(<<"p","a","r","t","n","e","r">>)
          /\ request.user = None
          /\ \A i \in DOMAIN secretsCalls : secretsCalls[i].key # "API_KEY"
  /\ (\E i \in DOMAIN secretsCalls : secretsCalls[i].key = "API_KEY")
       => ~Carries(request.headers.kongTrust)

C11_Witness ==
  /\ Done /\ ~isPublic /\ TrustValid
  /\ ~BypassEligible
  /\ request.headers.apiKey = <<"k","2">>
  /\ Configured("API_KEY")
  /\ ~IdentitySignal
  /\ ~Carries(request.headers.consumerUsername)
  /\ request.service = Some(<<"p","a","r","t","n","e","r">>)

\* C12: when x-userinfo is present but does not decode and parse into a
\* claims record, the request is neither rejected nor fails because of it:
\* it is admitted with the Identity the legacy path builds, the one the same
\* headers without x-userinfo yield, whose id is x-consumer-id or
\* x-credential-identifier unless an x-jwt-claim-id header replaces it.
C12_MalformedUserinfoFallsBack ==
  (/\ Done /\ ~isPublic
   /\ outcome \notin {InvalidTrust, InvalidApiKey, ProviderError}
   /\ outcome.message \notin {"Authentication configuration error",
                               "Server API key is not configured"}
   /\ request.headers.userinfo.kind \in {"malformed", "null", "number"})
    => /\ outcome = Admit
       /\ request.user =
            Some(extractUserFromHeaders(
                   [request.headers EXCEPT
                      !.userinfo = UserinfoHeader("undefined", NoClaims)]))
       /\ kId \notin DOMAIN request.headers.jwtClaims
            => request.user[1][kId] =
                 ValueOf(OrElse(request.headers.consumerId,
                                request.headers.credentialIdentifier))

\* The reference cascade of C13, stated on positions rather than by
\* recursion on the string.
RefDigit ==
  [c \in {"0","1","2","3","4","5","6","7","8","9"} |->
     CASE c = "0" -> 0 [] c = "1" -> 1 [] c = "2" -> 2 [] c = "3" -> 3
       [] c = "4" -> 4 [] c = "5" -> 5 [] c = "6" -> 6 [] c = "7" -> 7
       [] c = "8" -> 8 [] c = "9" -> 9]

RefPow10 == <<1, 10, 100, 1000, 10000, 100000, 1000000>>

RefCommas(s) == {i \in DOMAIN s : s[i] = ","}

\* Position of the k-th comma; 0 before the first, Len(s) + 1 after the last.
RefCut(s, k) ==
  IF k = 0 THEN 0
  ELSE IF k > Cardinality(RefCommas(s)) THEN Len(s) + 1
  ELSE CHOOSE i \in RefCommas(s) :
         Cardinality({j \in RefCommas(s) : j < i}) = k - 1

\* The k-th comma-separated segment without its outer spaces and tabs.
RefSegment(s, k) ==
  LET inside == {i \in DOMAIN s :
                   /\ RefCut(s, k - 1) < i /\ i < RefCut(s, k)
                   /\ s[i] \notin {" ", "\t"}}
  IN IF inside = {} THEN <<>>
     ELSE LET lo == CHOOSE i \in inside : \A j \in inside : i <= j
              hi == CHOOSE i \in inside : \A j \in inside : j <= i
          IN [i \in 1..(hi - lo + 1) |-> s[lo + i - 1]]

\* The number a string of decimal digits writes.
RefInteger(s) ==
  CHOOSE n \in 0..(RefPow10[Len(s) + 1] - 1) :
    \A i \in DOMAIN s : (n \div RefPow10[Len(s) - i + 1]) % 10 = RefDigit[s[i]]

ReferenceCascade(s) ==
  IF RefCommas(s) # {}
  THEN [t |-> "array",
        a |-> [k \in 1..(Cardinality(RefCommas(s)) + 1) |-> RefSegment(s, k)]]
  ELSE IF s # <<>> /\ \A i \in DOMAIN s : s[i] \in DOMAIN RefDigit
  THEN [t |-> "number", n |-> RefInteger(s)]
  ELSE IF s \in {<<"t","r","u","e">>, <<"f","a","l","s","e">>}
  THEN [t |-> "boolean", b |-> (s = <<"t","r","u","e">>)]
  ELSE [t |-> "string", s |-> s]

\* C13: for every header string parseHeaderValue and AuthGuard.parseValue
\* both return what the reference cascade returns: with a comma the array of
\* trimmed segments, each left a string; else for decimal digits that
\* integer; else for 'true' or 'false' that boolean; else the string.
C13_ParsersEqualReferenceCascade ==
  parsed # NotParsed
    => /\ parsed.byParseHeaderValue = ReferenceCascade(headerValue)
       /\ parsed.byParseValue = ReferenceCascade(headerValue)

C13_Witness ==
  /\ headerValue = <<"1", ",", " ", "0">>
  /\ parsed # NotParsed
  /\ parsed.byParseHeaderValue = ArrV(<<<<"1">>, <<"0">>>>)
  /\ parsed.byParseValue = ArrV(<<<<"1">>, <<"0">>>>)

\* Vocabulary of the provider properties.  A call of caller p has settled
\* and its caller has not taken the result yet.
GetReturned(p) == call[p].pc = "returned" /\ call[p].op = "get"

SetReturned(p) == call[p].pc = "returned" /\ call[p].op = "set"

\* The settled get was served from the cache: it made no store request.
ServedFromCache(p) == GetReturned(p) /\ call[p].calls = <<>>

\* A set of the key completed and no get of it has returned since.
AfterSet(p) == lastSet[call[p].key] # NoSet

\* C14: in every provider a get returns a cached entry's value only while
\* now < expiresAt; at now = expiresAt and later the entry is a miss.
C14_CacheHitOnlyBeforeExpiry ==
  \A p \in Procs :
    ServedFromCache(p)
      => /\ call[p].key \in DOMAIN cache
         /\ call[p].startedAt < cache[call[p].key].expiresAt

\* C15 as stated: after a set of the key completed, a get of it within the
\* TTL window returns the value set without a store request, and once the
\* TTL has elapsed a get makes a store request.
C15_GetAfterSetServedFromCache ==
  \A p \in Procs :
    (GetReturned(p) /\ AfterSet(p))
      => IF call[p].startedAt < lastSet[call[p].key].at + TtlOf(provider)
         THEN /\ call[p].calls = <<>>
              /\ call[p].result = Response(TRUE, lastSet[call[p].key].value)
         ELSE call[p].calls # <<>>

\* C15, amended: after set(key, v) completes the cache has no entry for
\* key, so the first get of the key afterwards makes a store request
\* whenever it runs; a get returns a value without a store request only
\* from an entry an earlier get cached, and not later than its expiry.
C15_GetAfterSetReadsStore ==
  \A p \in Procs :
    /\ (SetReturned(p) /\ call[p].result.ok) => call[p].key \notin DOMAIN cache
    /\ (GetReturned(p) /\ AfterSet(p)) => call[p].calls # <<>>
    /\ ServedFromCache(p)
         => /\ call[p].key \in DOMAIN cache
            /\ call[p].result = Response(TRUE, cache[call[p].key].value)
            /\ call[p].startedAt <= cache[call[p].key].expiresAt

C15_Witness ==
  /\ provider = "gcp"
  /\ GetReturned(1) /\ AfterSet(1)
  /\ call[1].startedAt = lastSet[call[1].key].at
  /\ call[1].calls # <<>>
  /\ call[1].result = Response(TRUE, lastSet[call[1].key].value)

\* C16: on a cloud provider, once a set or remove of a key has completed the
\* cache holds no value for the key that was read from the store before the
\* write, whatever the interleaving with concurrent gets.
C16_NoPreWriteValueCached ==
  \A k \in DOMAIN cache :
    cache[k].stale
      => \E q \in Procs :
           /\ call[q].op \in {"set", "remove"}
           /\ call[q].key = k
           /\ call[q].pc \notin {"idle", "returned"}

\* The value a store holds under a name, null if it holds none.
HeldAt(st, name) ==
  IF name \in DOMAIN st /\ st[name] # NoVersion THEN st[name] ELSE Null

\* What the service scope, else the shared scope, holds for a key.
InEitherScope(st, key) ==
  IF HeldAt(st, SecretName(provider, key, serviceName)) # Null
  THEN HeldAt(st, SecretName(provider, key, serviceName))
  ELSE HeldAt(st, SecretName(provider, key, SharedOf(provider)))

\* The message of the adapter's not-found error.
NamesKeyProviderService(message, key) ==
  /\ \E i \in DOMAIN message : message[i] = key
  /\ \E i \in DOMAIN message : message[i] = <<provider>>
  /\ \E i \in DOMAIN message : message[i] = serviceName

C18_NoUrlValueCached ==
  provider \in CloudProviders
    => \A k \in DOMAIN cache : ~isUrlValue(cache[k].value)

\* C19: on every cloud provider a get of API_KEY that misses the cache reads
\* only {projectName}-shared-{SERVICE_NAME_UPPER_SNAKE}_API_KEY; a get of any
\* other key reads the service-scoped secret first.
C19_ApiKeyThroughSharedScopeOnly ==
  \A p \in Procs :
    (provider \in CloudProviders /\ GetReturned(p) /\ call[p].calls # <<>>)
      => IF call[p].key = ApiKeyName
         THEN call[p].calls =
                <<Request("read",
                          <<"p","-","s","h","a","r","e","d","-",
                            "A","_","B","_","A","P","I","_","K","E","Y">>,
                          Null)>>
         ELSE call[p].calls[1] =
                Request("read", SecretName(provider, call[p].key, serviceName),
                        Null)

\* C20: on GCP and AWS a set looks for the service-scoped secret only;
\* whether or not it exists (and whatever the shared scope holds) the set
\* succeeds, the service-scoped secret then holds the value and the cache
\* has no entry for the key.
C20_SetChecksServiceScopeOnly ==
  \A p \in Procs :
    (provider \in {"gcp", "aws"} /\ SetReturned(p))
      => /\ call[p].result.ok
         /\ SecretName(provider, call[p].key, serviceName) \in DOMAIN store
         /\ store[SecretName(provider, call[p].key, serviceName)] = call[p].value
         /\ call[p].key \notin DOMAIN cache
         /\ \A i \in DOMAIN call[p].calls :
              call[p].calls[i].name = SecretName(provider, call[p].key, serviceName)

\* A store request of the call failed for a reason other than not-found.
TransportFailed(p) ==
  \E i \in DOMAIN call[p].calls : call[p].calls[i].api = "failed"

\* C21: when a store request of a cloud provider operation fails for a
\* reason other than not-found, the operation fails: the failure reaches the
\* caller as an error, a get neither reports not-found nor returns a value
\* of another scope, and nothing is cached for the key.
C21_TransportErrorsPropagate ==
  \A p \in Procs :
    (call[p].pc = "returned" /\ TransportFailed(p))
      => /\ ~call[p].result.ok
         /\ call[p].op = "get" => call[p].key \notin DOMAIN cache

\* C28: on every cloud provider a get of a key that is not special-cased
\* either makes no store request (cache hit) or reads the service-scoped
\* name first; if the service scope holds a value that value is returned
\* and no other read is made, otherwise exactly one read of the shared name
\* follows; a get never makes more than 2 store reads.
C28_ServiceScopeShortCircuits ==
  \A p \in Procs :
    (/\ provider \in CloudProviders
     /\ GetReturned(p)
     /\ ~(provider = "gcp" /\ call[p].key = ApiKeyName)
     /\ call[p].calls # <<>>)
      => LET svc == SecretName(provider, call[p].key, serviceName)
             shd == SecretName(provider, call[p].key, SharedScope)
         IN /\ Len(call[p].calls) <= 2
            /\ call[p].calls[1] = Request("read", svc, Null)
            /\ IF HeldAt(store, svc) # Null
               THEN /\ Len(call[p].calls) = 1
                    /\ call[p].result = Response(TRUE, HeldAt(store, svc))
               ELSE /\ Len(call[p].calls) = 2
                    /\ call[p].calls[2] = Request("read", shd, Null)

C28_Witness ==
  /\ provider = "azure"
  /\ GetReturned(1)
  /\ call[1].key = <<"D","B">>
  /\ HeldAt(store, SecretName(provider, call[1].key, SharedScope)) # Null
  /\ call[1].result = Response(TRUE, <<"v">>)
  /\ Len(call[1].calls) = 1

\* C24: after SecretsService.clearCache() returned, the next get of a key
\* reads the backing store, whichever provider the service holds.
C24_ClearCacheForcesReload ==
  \A p \in Procs :
    (GetReturned(p) /\ lastSet[call[p].key] = Cleared(lastSet[call[p].key].at))
      => call[p].calls # <<>>

\* A set or delete of the local provider whose regeneration step failed.
RegenerationFailed(c) ==
  /\ c.pc = "returned"
  /\ c.op \in {"set", "delete"}
  /\ ~c.result.ok
  /\ c.calls # <<>>

\* C30: when the regeneration step fails, set (delete) of the local
\* provider fails although .secrets.user.json already holds key = v (no
\* longer holds key), and no step of the failing call changes the cache.
C30_FailedRegenerationKeepsCache ==
  [][ /\ RegenerationFailed(call'[1])
          => IF call'[1].op = "set"
             THEN /\ UserSecretPath(call'[1].key) \in DOMAIN store'
                  /\ store'[UserSecretPath(call'[1].key)] = call'[1].value
             ELSE UserSecretPath(call'[1].key) \notin DOMAIN store'
      /\ (/\ provider = "local"
          /\ call'[1].op \in {"set", "delete"}
          /\ ~(call'[1].pc = "returned" /\ call'[1].result.ok))
          => cache' = cache ]_vars

C30_Witness ==
  /\ RegenerationFailed(call[1])
  /\ call[1].op = "set"
  /\ call[1].key \in DOMAIN cache
  /\ cache[call[1].key].value # call[1].value
  /\ now < cache[call[1].key].expiresAt
  /\ store[UserSecretPath(call[1].key)] = call[1].value

\* C22: on GCP and AWS, list() returns for a secret stored under
\* {projectName}-{scope}-{key}, with scope the service name or 'shared',
\* exactly key, also when the service name contains hyphens.
C22_ListRecoversKey ==
  (/\ naming # NotApplied
   /\ naming.listed # NotListed
   /\ naming.prov \in {"gcp", "aws"})
    => naming.listed = naming.key

\* C29: on Azure the name-to-key recovery of list undoes the key-to-name
\* transform for every logical key, and no other logical key is stored under
\* the same secret name.
C29_AzureTransformInverse ==
  (/\ naming # NotApplied
   /\ naming.listed # NotListed
   /\ naming.prov = "azure")
    => /\ naming.listed = naming.key
       /\ \A k \in LogicalKeys :
            k # naming.key
              => buildSecretName("azure", k, naming.scope)
                   # buildSecretName("azure", naming.key, naming.scope)

\* The required variables that the environment lacks.
MissingVariables(type, env) ==
  ({"PROJECT_NAME"} \ env)
    \cup {validateProviderEnvVars(type, env)[i] :
            i \in DOMAIN validateProviderEnvVars(type, env)}

\* C23: when a cloud provider is selected and a required environment
\* variable is missing, createProvider throws one error that names every
\* missing variable, and no provider has been constructed.
C23_AllMissingVariablesNamed ==
  (/\ creation # NotApplied
   /\ creation.result # NotCreated
   /\ creation.type \in CloudProviders
   /\ MissingVariables(creation.type, creation.env) # {})
    => /\ creation.result.threw
       /\ {creation.result.names[i] : i \in DOMAIN creation.result.names}
            = MissingVariables(creation.type, creation.env)
       /\ creation.result.constructed = "none"

C26_QueryStringDoesNotBypass ==
  (/\ Done
   /\ TrustInvalid
   /\ RequestPath(request) = <<"/", "orders?next=", "/", ".well-known", "/", "x">>)
    => outcome = InvalidTrust

\* C27: when x-userinfo parses to a claims record and the request is
\* admitted with an Identity, the Identity's id is the record's sub claim and
\* every other claim of the record is in the Identity with its value.
C27_PrimaryPathCopiesClaims ==
  (/\ Admitted
   /\ request.user # None
   /\ request.headers.userinfo.kind = "object")
    => LET claims == request.headers.userinfo.claims
           user == request.user[1]
       IN /\ user[kId] = (IF kSub \in DOMAIN claims THEN claims[kSub] ELSE UndefV)
          /\ \A k \in DOMAIN claims \ {kSub} :
               k \in DOMAIN user /\ user[k] = claims[k]

====
